---- MODULE Spec2Model ----
(***************************************************************************)
(* State-machine model of the grid-trading engine GridStrategy             *)
(* (src/strategy.py) and of the order reconciliation the live driver       *)
(* applies to it (src/live_runner.py).                                     *)
(*                                                                         *)
(* Numbers.  The engine computes on Python floats; the model computes on   *)
(* exact rationals.  Prices handed to the engine (current_price,           *)
(* fill_price) are integers; a derived price (a grid step, a level) is a   *)
(* fraction [n |-> numerator, d |-> denominator] with d > 0.  qty_step is  *)
(* the unit of quantity, so every normalized quantity is an integer, and   *)
(* cash is an integer number of (price unit * qty_step).  A config         *)
(* fraction such as step_percent is a fraction record as well.             *)
(***************************************************************************)
EXTENDS Integers, Sequences, FiniteSets, TLC

VARIABLES
    config,         \* self.config, read once by __init__
    cash,           \* self.cash
    base_holdings,  \* self.base_holdings
    active_orders,  \* self.active_orders : order id -> Order
    positions,      \* self.positions : level_key -> Position
    total_pnl,      \* self.total_pnl
    realized_pnl,   \* self.realized_pnl
    max_equity,     \* self.max_equity
    max_drawdown,   \* self.max_drawdown (never written after __init__)
    price_history,  \* self.price_history
    actions,        \* the dict the most recent step_book call returned
    last,           \* the most recent call on the engine and its arguments
    calls,          \* number of calls made on the engine so far
    trades,         \* the fills on_order_filled has processed: id, price, quantity
    exact_fills,    \* every processed fill was at its order's price and quantity
    pc,             \* LiveTradingBot: the step of the cycle the bot is at
    cycle_count,    \* LiveTradingBot.cycle_count (0: not yet set)
    mock_orders     \* MockMexcAPIClient.mock_orders, in order of placement

\* the fields of the engine, and what the model records about its calls
engine == <<config, cash, base_holdings, active_orders, positions, total_pnl,
            realized_pnl, max_equity, max_drawdown, price_history, actions,
            last, calls, trades, exact_fills>>

\* the state of the live driver and of its gateway
driver == <<pc, cycle_count, mock_orders>>

vars == <<config, cash, base_holdings, active_orders, positions, total_pnl,
          realized_pnl, max_equity, max_drawdown, price_history, actions,
          last, calls, trades, exact_fills, pc, cycle_count, mock_orders>>

-----------------------------------------------------------------------------
(* Bounds of the model *)

\* the driver makes at most MaxCalls calls on the engine in a behaviour
MaxCalls == 4

\* the live bot starts at most MaxCycles cycles in a behaviour
MaxCycles == 10

\* ticks of a run that only feeds prices
MaxTicks == 7

\* prices the driver feeds to step_book
Prices == {80, 100, 104}

-----------------------------------------------------------------------------
(* Exact arithmetic *)

Abs(x) == IF x < 0 THEN -x ELSE x

RECURSIVE GCD(_, _)
GCD(a, b) == IF b = 0 THEN a ELSE GCD(b, a % b)

\* the fraction n/d (d # 0) in lowest terms with a positive denominator
Frac(n, d) ==
    LET g == GCD(Abs(n), Abs(d))
        s == IF d < 0 THEN -1 ELSE 1
    IN  [n |-> s * (n \div g), d |-> s * (d \div g)]

FromInt(x) == [n |-> x, d |-> 1]
FMul(a, b) == Frac(a.n * b.n, a.d * b.d)
FAdd(a, b) == Frac(a.n * b.d + b.n * a.d, a.d * b.d)
FSub(a, b) == Frac(a.n * b.d - b.n * a.d, a.d * b.d)
FDiv(a, b) == Frac(a.n * b.d, a.d * b.n)
FLess(a, b) == a.n * b.d < b.n * a.d

\* Python's round(n/d): to the nearest integer, a tie to the even one (d > 0)
RoundHalfEven(n, d) ==
    LET q == n \div d
        r == n % d
    IN  IF 2 * r < d THEN q
        ELSE IF 2 * r > d THEN q + 1
        ELSE IF q % 2 = 0 THEN q ELSE q + 1

Round(f) == RoundHalfEven(f.n, f.d)

-----------------------------------------------------------------------------
(* Configurations.  config.json is read by __init__ and never validated,   *)
(* so any record of these fields is a configuration the engine can run on. *)
(* missing is the set of sections the file lacks.                          *)

\* percent grid, linear sizing with inventory skew, compounding, percent
\* take-profit, pause threshold below the kill threshold
ConfigPercent ==
    [ mode |-> "percent", step_percent |-> [n |-> 1, d |-> 25],
      atr_window |-> 2, atr_k |-> [n |-> 1, d |-> 4],
      tick_size |-> 1, qty_step |-> 1, levels_below |-> 2, levels_above |-> 0,
      maker_buffer_frac |-> [n |-> 1, d |-> 200],
      tp_mode |-> "percent", tp_percent |-> [n |-> 1, d |-> 10],
      sizing_mode |-> "linear", skew_strength |-> [n |-> 2, d |-> 1],
      min_notional |-> 50,
      quote_start |-> 1000, base_start_quote |-> 0, compound |-> TRUE,
      target_inventory_ratio |-> [n |-> 1, d |-> 2],
      dd_pause_frac |-> [n |-> 1, d |-> 20],
      kill_switch_frac |-> [n |-> 3, d |-> 20],
      symbol |-> "BTCUSDT", missing |-> {} ]

\* ATR grid, geometric sizing without skew, no compounding, step
\* take-profit, a starting base balance, levels above the price, and a kill
\* threshold below the pause threshold
ConfigAtr ==
    [ mode |-> "atr", step_percent |-> [n |-> 1, d |-> 25],
      atr_window |-> 2, atr_k |-> [n |-> 1, d |-> 4],
      tick_size |-> 1, qty_step |-> 1, levels_below |-> 2, levels_above |-> 1,
      maker_buffer_frac |-> [n |-> 1, d |-> 200],
      tp_mode |-> "step", tp_percent |-> [n |-> 1, d |-> 10],
      sizing_mode |-> "geometric", skew_strength |-> [n |-> 0, d |-> 1],
      min_notional |-> 50,
      quote_start |-> 1000, base_start_quote |-> 180000, compound |-> FALSE,
      target_inventory_ratio |-> [n |-> 1, d |-> 2],
      dd_pause_frac |-> [n |-> 1, d |-> 10],
      kill_switch_frac |-> [n |-> 1, d |-> 20],
      symbol |-> "BTCUSDT", missing |-> {} ]

\* config.json without its "risk" section: __init__ reads only "capital", so
\* the engine is constructed; the values the record holds for the absent
\* parameters are never read
ConfigNoRisk == [ConfigPercent EXCEPT !.missing = {"risk"}]

\* ConfigPercent with a skew that sizes a level above the whole cash while
\* the engine holds no base
ConfigSkew == [ConfigPercent EXCEPT !.skew_strength = [n |-> 3, d |-> 1]]

\* ConfigPercent with geometric sizing and a skew under which level index 0
\* is sized below the cash and level index 1 above it
ConfigGeometric ==
    [ConfigPercent EXCEPT !.sizing_mode = "geometric",
                          !.skew_strength = [n |-> 5, d |-> 2]]

Configs == {ConfigPercent, ConfigAtr, ConfigNoRisk, ConfigSkew, ConfigGeometric}

-----------------------------------------------------------------------------
(* Values of the engine *)

BUY == "BUY"
SELL == "SELL"
\* OrderStatus (NEW is a reserved word of TLA+)
StatusNEW == "NEW"
StatusFILLED == "FILLED"
StatusCANCELED == "CANCELED"

\* An order id f"BUY_{level:.2f}_{len(active_orders)}" is the pair of the
\* level in hundredths and the count.  None stands for Python's None.
None == [level2f |-> -1, n |-> -1]

\* level_key = None: the key no level has
NoKey == -(1)

NoOrder ==
    [id |-> None, symbol |-> "", side |-> "", price |-> 0, quantity |-> 0,
     status |-> "", level_key |-> NoKey]

\* the elements of a list
Range(seq) == {seq[j] : j \in 1..Len(seq)}

EmptyMap == [x \in {} |-> 0]

Put(f, k, v) == [x \in DOMAIN f \cup {k} |-> IF x = k THEN v ELSE f[x]]

\* a deletion that leaves the entry in the map
Keep(f, k) == f

\* a removal that leaves an order marked FILLED in the map
RemoveUnlessFilled(f, k) ==
    IF f[k].status = StatusFILLED THEN f
    ELSE [id \in DOMAIN f \ {k} |-> f[id]]

Remove(f, k) == [x \in DOMAIN f \ {k} |-> f[x]]

RECURSIVE SumQuantity(_, _)
SumQuantity(f, keys) ==
    IF keys = {} THEN 0
    ELSE LET k == CHOOSE x \in keys : TRUE
         IN  f[k].quantity + SumQuantity(f, keys \ {k})

RECURSIVE Pow(_, _)
Pow(b, e) == IF e = 0 THEN 1 ELSE b * Pow(b, e - 1)

-----------------------------------------------------------------------------
(* GridStrategy: the pure helpers *)

\* round(price / tick_size) * tick_size
NormalizePrice(price) ==
    RoundHalfEven(price.n, price.d * config.tick_size) * config.tick_size

\* round(qty / qty_step) * qty_step
NormalizeQuantity(qty) ==
    RoundHalfEven(qty.n, qty.d * config.qty_step) * config.qty_step

\* f"{level:.2f}": the level in hundredths
Format2f(level) == RoundHalfEven(level.n * 100, level.d)

\* sum of |p[j+1] - p[j]| over the consecutive pairs of a price list
RECURSIVE SumAbsDiff(_, _)
SumAbsDiff(prices, j) ==
    IF j >= Len(prices) THEN 0
    ELSE Abs(prices[j + 1] - prices[j]) + SumAbsDiff(prices, j + 1)

\* price_history[-window:]  (with window = 0 Python's [-0:] is the whole list)
LastPrices(hist, window) ==
    IF window = 0 \/ window >= Len(hist) THEN hist
    ELSE SubSeq(hist, Len(hist) - window + 1, Len(hist))

\* get_grid_step with price_history = hist
\* an ATR over every price of the history
GetGridStepWholeHistory(hist, current_price) ==
    IF config.mode = "percent"
    THEN FMul(FromInt(current_price), config.step_percent)
    ELSE IF Len(hist) < config.atr_window
    THEN Frac(current_price * 4, 1000)
    ELSE LET pairs == Len(hist) - 1
             atr == IF pairs > 0
                    THEN Frac(SumAbsDiff(hist, 1), pairs)
                    ELSE Frac(current_price * 4, 1000)
         IN  FMul(atr, config.atr_k)

GetGridStep(hist, current_price) ==
    IF config.mode = "percent"
    THEN FMul(FromInt(current_price), config.step_percent)
    ELSE IF Len(hist) < config.atr_window
    THEN Frac(current_price * 4, 1000)
    ELSE LET recent_prices == LastPrices(hist, config.atr_window)
             pairs == Len(recent_prices) - 1
             atr == IF pairs > 0
                    THEN Frac(SumAbsDiff(recent_prices, 1), pairs)
                    ELSE Frac(current_price * 4, 1000)
         IN  FMul(atr, config.atr_k)

\* weights[i] = 1.2 ** i
Weight(i) == Frac(Pow(6, i), Pow(5, i))

\* sum(weights[0..i])
RECURSIVE TotalWeight(_)
TotalWeight(i) == IF i < 0 THEN FromInt(0) ELSE FAdd(Weight(i), TotalWeight(i - 1))

\* calculate_position_size
CalculatePositionSize(level_index, current_price) ==
    LET available_cash == Frac(cash * 9, 10)
        levels_below == config.levels_below
        size_per_level ==
            IF config.sizing_mode = "linear"
            THEN FDiv(available_cash, FromInt(levels_below))
            ELSE FMul(FDiv(available_cash, TotalWeight(levels_below - 1)),
                      Weight(level_index))
        current_equity == cash + base_holdings * current_price
        inventory_ratio == Frac(base_holdings * current_price, current_equity)
        target_ratio == config.target_inventory_ratio
        skew_mult ==
            FAdd(FromInt(1),
                 FMul(FSub(target_ratio, inventory_ratio), config.skew_strength))
    IN  IF FLess(inventory_ratio, target_ratio)
        THEN FMul(size_per_level, skew_mult)
        ELSE size_per_level

\* the order priced at the level itself, without the maker buffer
OrderPriceNoBuffer(level) == NormalizePrice(level)

\* level * (1 - maker_buffer), normalized: the price of the order for a level
OrderPrice(level) ==
    NormalizePrice(FMul(level, FSub(FromInt(1), config.maker_buffer_frac)))

\* a scan that finds no active order
NoActiveBuyNear(orders, order_price_norm) == FALSE

\* the duplicate scan of can_place_buy over the active orders `orders`
HasActiveBuyNear(orders, order_price_norm) ==
    \E id \in DOMAIN orders :
        /\ orders[id].side = BUY
        /\ Abs(orders[id].price - order_price_norm) < config.tick_size

\* can_place_buy with the scan of the active orders moved in front of the
\* lookup in positions
CanPlaceBuyDuplicateFirst(level, current_price, orders) ==
    LET level_key == NormalizePrice(level)
        order_price_norm == OrderPrice(level)
        position_size == CalculatePositionSize(0, current_price)
        quantity ==
            NormalizeQuantity(FDiv(position_size, FromInt(order_price_norm)))
    IN  IF HasActiveBuyNear(orders, order_price_norm)
        THEN [ok |-> FALSE, reason |-> "duplicate", raised |-> FALSE]
        ELSE IF level_key \in DOMAIN positions
        THEN [ok |-> FALSE, reason |-> "occupied", raised |-> FALSE]
        ELSE IF order_price_norm = 0
        THEN [ok |-> FALSE, reason |-> "ZeroDivisionError", raised |-> TRUE]
        ELSE IF quantity * order_price_norm < config.min_notional
        THEN [ok |-> FALSE, reason |-> "min_notional", raised |-> FALSE]
        ELSE IF FLess(FromInt(cash), position_size)
        THEN [ok |-> FALSE, reason |-> "cash", raised |-> FALSE]
        ELSE [ok |-> TRUE, reason |-> "OK", raised |-> FALSE]

\* can_place_buy, with self.active_orders = orders.  raised: the division
\* position_size / order_price_norm had a zero divisor (ZeroDivisionError)
CanPlaceBuy(level, current_price, orders) ==
    LET level_key == NormalizePrice(level)
        order_price_norm == OrderPrice(level)
        position_size == CalculatePositionSize(0, current_price)
        quantity ==
            NormalizeQuantity(FDiv(position_size, FromInt(order_price_norm)))
    IN  IF level_key \in DOMAIN positions
        THEN [ok |-> FALSE, reason |-> "occupied", raised |-> FALSE]
        ELSE IF HasActiveBuyNear(orders, order_price_norm)
        THEN [ok |-> FALSE, reason |-> "duplicate", raised |-> FALSE]
        ELSE IF order_price_norm = 0
        THEN [ok |-> FALSE, reason |-> "ZeroDivisionError", raised |-> TRUE]
        ELSE IF quantity * order_price_norm < config.min_notional
        THEN [ok |-> FALSE, reason |-> "min_notional", raised |-> FALSE]
        ELSE IF FLess(FromInt(cash), position_size)
        THEN [ok |-> FALSE, reason |-> "cash", raised |-> FALSE]
        ELSE [ok |-> TRUE, reason |-> "OK", raised |-> FALSE]

\* the levels below the price of get_target_levels (i = 1..levels_below)
RECURSIVE LevelsBelow(_, _, _)
LevelsBelow(current_price, step, i) ==
    IF i > config.levels_below THEN <<>>
    ELSE <<FSub(FromInt(current_price), FMul(FromInt(i), step))>>
         \o LevelsBelow(current_price, step, i + 1)

\* the levels above the price of get_target_levels (i = 1..levels_above)
RECURSIVE LevelsAbove(_, _, _)
LevelsAbove(current_price, step, i) ==
    IF i > config.levels_above THEN <<>>
    ELSE <<FAdd(FromInt(current_price), FMul(FromInt(i), step))>>
         \o LevelsAbove(current_price, step, i + 1)

\* get_target_levels with price_history = hist
GetTargetLevels(hist, current_price) ==
    LET step == GetGridStep(hist, current_price)
    IN  LevelsBelow(current_price, step, 1) \o LevelsAbove(current_price, step, 1)

-----------------------------------------------------------------------------
(* GridStrategy.__init__ *)

\* the "approximate BTC price" __init__ divides base_start_quote by
ApproxBasePrice == 45000

NoActions == [place_orders |-> <<>>, cancel_orders |-> <<>>, messages |-> <<>>]

\* what a call returned when it was not get_status
NoStatus == [cash |-> 0]

\* the record of a call: which operation and its arguments; price, over_pause
\* and over_kill are those of the most recent step_book call (what the risk
\* guard's two comparisons gave on that tick), prev_over_kill is over_kill of
\* the step_book call before it; raised and error tell whether the call ended
\* in an exception and which; status is the dict a get_status call returned,
\* repeated tells that the call before it was a get_status call as well
NoCall ==
    [op |-> "init", price |-> 0, order_id |-> None, fill_price |-> 0,
     fill_quantity |-> 0, known |-> FALSE, over_pause |-> FALSE,
     over_kill |-> FALSE, prev_over_kill |-> FALSE, raised |-> FALSE,
     error |-> "", exchange_ids |-> {}, status |-> NoStatus,
     repeated |-> FALSE, symbol |-> ""]

Init ==
    /\ config \in Configs
    /\ cash = config.quote_start
    /\ base_holdings = config.base_start_quote \div ApproxBasePrice
    /\ active_orders = EmptyMap
    /\ positions = EmptyMap
    /\ total_pnl = 0
    /\ realized_pnl = 0
    /\ max_equity = config.quote_start
    /\ max_drawdown = 0
    /\ price_history = <<>>
    /\ actions = NoActions
    /\ last = NoCall
    /\ calls = 0
    /\ trades = {}
    /\ exact_fills = TRUE
    /\ pc = "check_fills"
    /\ cycle_count = 0
    /\ mock_orders = <<>>

-----------------------------------------------------------------------------
(* GridStrategy.step_book *)

\* drawdown = (max_equity - current_equity) / max_equity at a price
Drawdown(current_price) ==
    Frac(max_equity - (cash + base_holdings * current_price), max_equity)

\* the risk check without its kill-switch return
RiskBranchNoKill(current_price) ==
    IF FLess(config.dd_pause_frac, Drawdown(current_price)) THEN "PAUSE"
    ELSE "NONE"

\* the risk check with the kill-switch comparison made first
RiskBranchKillFirst(current_price) ==
    IF FLess(config.kill_switch_frac, Drawdown(current_price)) THEN "STOP"
    ELSE IF FLess(config.dd_pause_frac, Drawdown(current_price)) THEN "PAUSE"
    ELSE "NONE"

\* a risk check that stays paused on the tick after a paused or halted one
RiskBranchCooldown(current_price) ==
    IF last.over_pause \/ last.over_kill THEN "PAUSE"
    ELSE IF FLess(config.dd_pause_frac, Drawdown(current_price)) THEN "PAUSE"
    ELSE IF FLess(config.kill_switch_frac, Drawdown(current_price)) THEN "STOP"
    ELSE "NONE"

\* the two early returns of the risk check, in the order the code makes them
RiskBranch(current_price) ==
    IF FLess(config.dd_pause_frac, Drawdown(current_price)) THEN "PAUSE"
    ELSE IF FLess(config.kill_switch_frac, Drawdown(current_price)) THEN "STOP"
    ELSE "NONE"

\* the high-water mark overwritten with the current equity on every tick
NewMaxEquityAlways(current_equity) == current_equity

\* the update of the equity high-water mark
NewMaxEquity(current_equity) ==
    IF current_equity > max_equity THEN current_equity ELSE max_equity

\* price_history after the append and the cut of step_book
\* a cut that keeps the oldest atr_window prices
NewPriceHistoryKeepOldest(current_price) ==
    LET appended == Append(price_history, current_price)
    IN  IF Len(appended) > config.atr_window * 2
        THEN SubSeq(appended, 1, config.atr_window)
        ELSE appended

NewPriceHistory(current_price) ==
    LET appended == Append(price_history, current_price)
    IN  IF Len(appended) > config.atr_window * 2
        THEN LastPrices(appended, config.atr_window)
        ELSE appended

\* the order step_book builds for target level number i (enumerate index
\* i - 1) when the active orders are `orders`
NewOrder(level, i, current_price, orders) ==
    LET order_price == OrderPrice(level)
        position_size == CalculatePositionSize(i - 1, current_price)
        quantity == NormalizeQuantity(FDiv(position_size, FromInt(order_price)))
        order_id == [level2f |-> Format2f(level), n |-> Cardinality(DOMAIN orders)]
    IN  [id |-> order_id, symbol |-> config.symbol, side |-> BUY,
         price |-> order_price, quantity |-> quantity, status |-> StatusNEW,
         level_key |-> NormalizePrice(level)]

\* a placement loop that does not skip the levels at or above the price
RECURSIVE PlaceOrdersAllLevels(_, _, _, _)
PlaceOrdersAllLevels(target_levels, i, current_price, acc) ==
    IF i > Len(target_levels) \/ acc.raised THEN acc
    ELSE LET level == target_levels[i]
             check == CanPlaceBuy(level, current_price, acc.orders)
             order == NewOrder(level, i, current_price, acc.orders)
         IN  IF check.raised
             THEN [acc EXCEPT !.raised = TRUE]
             ELSE IF ~check.ok
             THEN PlaceOrdersAllLevels(target_levels, i + 1, current_price, acc)
             ELSE PlaceOrdersAllLevels(target_levels, i + 1, current_price,
                     [orders |-> Put(acc.orders, order.id, order),
                      place_orders |-> Append(acc.place_orders, order),
                      messages |-> Append(acc.messages, "BUY placed"),
                      raised |-> FALSE])

\* the placement loop of step_book from target level number i on; acc holds
\* active_orders, actions["place_orders"], actions["messages"] so far, and
\* whether an exception ended the loop
RECURSIVE PlaceOrders(_, _, _, _)
PlaceOrders(target_levels, i, current_price, acc) ==
    IF i > Len(target_levels) \/ acc.raised THEN acc
    ELSE LET level == target_levels[i]
             check == CanPlaceBuy(level, current_price, acc.orders)
             order == NewOrder(level, i, current_price, acc.orders)
         IN  IF ~FLess(level, FromInt(current_price))
             THEN PlaceOrders(target_levels, i + 1, current_price, acc)
             ELSE IF check.raised
             THEN [acc EXCEPT !.raised = TRUE]
             ELSE IF ~check.ok
             THEN PlaceOrders(target_levels, i + 1, current_price, acc)
             ELSE PlaceOrders(target_levels, i + 1, current_price,
                     [orders |-> Put(acc.orders, order.id, order),
                      place_orders |-> Append(acc.place_orders, order),
                      messages |-> Append(acc.messages, "BUY placed"),
                      raised |-> FALSE])

\* step_book.  Without a "risk" section the read of dd_pause_frac raises
\* KeyError, after the price was appended to the history.
StepBook(current_price) ==
    LET hist == NewPriceHistory(current_price)
        current_equity == cash + base_holdings * current_price
        branch == RiskBranch(current_price)
        placed == PlaceOrders(GetTargetLevels(hist, current_price), 1,
                              current_price,
                              [orders |-> active_orders, place_orders |-> <<>>,
                               messages |-> <<>>, raised |-> FALSE])
    IN  /\ price_history' = hist
        /\ IF "risk" \in config.missing
           THEN /\ UNCHANGED <<active_orders, max_equity, actions>>
                /\ last' = [NoCall EXCEPT
                              !.op = "step_book", !.price = current_price,
                              !.raised = TRUE, !.error = "KeyError"]
           ELSE /\ IF branch # "NONE"
                   THEN /\ actions' = [NoActions EXCEPT !.messages = <<branch>>]
                        /\ UNCHANGED <<active_orders, max_equity>>
                   ELSE /\ max_equity' = NewMaxEquity(current_equity)
                        /\ active_orders' = placed.orders
                        /\ actions' = IF placed.raised THEN actions
                                      ELSE [NoActions EXCEPT
                                              !.place_orders = placed.place_orders,
                                              !.messages = placed.messages]
                /\ last' = [NoCall EXCEPT
                              !.op = "step_book", !.price = current_price,
                              !.over_pause =
                                  FLess(config.dd_pause_frac,
                                        Drawdown(current_price)),
                              !.over_kill =
                                  FLess(config.kill_switch_frac,
                                        Drawdown(current_price)),
                              !.prev_over_kill = last.over_kill,
                              !.raised = (branch = "NONE" /\ placed.raised),
                              !.error = IF branch = "NONE" /\ placed.raised
                                        THEN "ZeroDivisionError" ELSE ""]
        /\ calls' = calls + 1
        /\ UNCHANGED <<config, cash, base_holdings, positions, total_pnl,
                       realized_pnl, max_drawdown, trades, exact_fills>>

-----------------------------------------------------------------------------
(* GridStrategy.on_order_filled *)

\* a lookup that falls back to some active order when the id is not found
LookupOrderOrAny(order_id) ==
    IF order_id \in DOMAIN active_orders THEN active_orders[order_id]
    ELSE IF DOMAIN active_orders # {}
    THEN active_orders[CHOOSE id \in DOMAIN active_orders : TRUE]
    ELSE NoOrder

\* the order on_order_filled finds under order_id, NoOrder when there is none
LookupOrder(order_id) ==
    IF order_id \in DOMAIN active_orders THEN active_orders[order_id] ELSE NoOrder

\* the account and the positions, as the fill handlers change them
Book ==
    [cash |-> cash, base_holdings |-> base_holdings, positions |-> positions,
     realized_pnl |-> realized_pnl, total_pnl |-> total_pnl]

\* a BUY fill that credits the base and neither debits cash nor opens a
\* position
HandleBuyFillNoDebit(order, fill_price, fill_quantity) ==
    [Book EXCEPT !.base_holdings = base_holdings + fill_quantity]

\* a BUY fill booked for the whole quantity of the order
HandleBuyFillWholeOrder(order, fill_price, fill_quantity) ==
    LET level_key == IF order.level_key # NoKey THEN order.level_key ELSE fill_price
        tp_price ==
            IF config.tp_mode = "step"
            THEN FAdd(FromInt(fill_price), GetGridStep(price_history, fill_price))
            ELSE FMul(FromInt(fill_price), FAdd(FromInt(1), config.tp_percent))
        position ==
            [level_price |-> fill_price, quantity |-> order.quantity,
             buy_price |-> fill_price, tp_price |-> NormalizePrice(tp_price),
             tp_order_id |-> None]
    IN  [Book EXCEPT !.cash = cash - fill_price * order.quantity,
                     !.base_holdings = base_holdings + order.quantity,
                     !.positions = Put(positions, level_key, position)]

\* _handle_buy_fill
HandleBuyFill(order, fill_price, fill_quantity) ==
    LET cost == fill_price * fill_quantity
        level_key == IF order.level_key # NoKey THEN order.level_key ELSE fill_price
        tp_price ==
            IF config.tp_mode = "step"
            THEN FAdd(FromInt(fill_price), GetGridStep(price_history, fill_price))
            ELSE FMul(FromInt(fill_price), FAdd(FromInt(1), config.tp_percent))
        position ==
            [level_price |-> fill_price, quantity |-> fill_quantity,
             buy_price |-> fill_price, tp_price |-> NormalizePrice(tp_price),
             tp_order_id |-> None]
    IN  [Book EXCEPT !.cash = cash - cost,
                     !.base_holdings = base_holdings + fill_quantity,
                     !.positions = Put(positions, level_key, position)]

\* a take-profit fill that returns the proceeds to cash whatever
\* capital.compound says
HandleSellFillAlwaysCredit(order, fill_price, fill_quantity) ==
    LET matching == {k \in DOMAIN positions : positions[k].tp_order_id = order.id}
        position_key == CHOOSE k \in matching : TRUE
        profit == (fill_price - positions[position_key].buy_price) * fill_quantity
    IN  IF matching = {} THEN Book
        ELSE [Book EXCEPT
                !.realized_pnl = realized_pnl + profit,
                !.total_pnl = total_pnl + profit,
                !.cash = cash + fill_price * fill_quantity,
                !.base_holdings = base_holdings - fill_quantity,
                !.positions = Remove(positions, position_key)]

\* a take-profit fill that books the profit in realized_pnl only
HandleSellFillRealizedOnly(order, fill_price, fill_quantity) ==
    LET matching == {k \in DOMAIN positions : positions[k].tp_order_id = order.id}
        position_key == CHOOSE k \in matching : TRUE
        profit == (fill_price - positions[position_key].buy_price) * fill_quantity
    IN  IF matching = {} THEN Book
        ELSE [Book EXCEPT
                !.realized_pnl = realized_pnl + profit,
                !.cash = IF config.compound THEN cash + fill_price * fill_quantity
                         ELSE cash,
                !.base_holdings = base_holdings - fill_quantity,
                !.positions = Remove(positions, position_key)]

\* _handle_sell_fill.  The code takes the first position in insertion order
\* whose tp_order_id is the order's id; the model takes any such position.
HandleSellFill(order, fill_price, fill_quantity) ==
    LET matching == {k \in DOMAIN positions : positions[k].tp_order_id = order.id}
        position_key == CHOOSE k \in matching : TRUE
        position == positions[position_key]
        profit == (fill_price - position.buy_price) * fill_quantity
    IN  IF matching = {} THEN Book
        ELSE [Book EXCEPT
                !.realized_pnl = realized_pnl + profit,
                !.total_pnl = total_pnl + profit,
                !.cash = IF config.compound THEN cash + fill_price * fill_quantity
                         ELSE cash,
                !.base_holdings = base_holdings - fill_quantity,
                !.positions = Remove(positions, position_key)]

OnOrderFilled(order_id, fill_price, fill_quantity) ==
    LET order == LookupOrder(order_id)
        book == IF order.side = BUY
                THEN HandleBuyFill(order, fill_price, fill_quantity)
                ELSE HandleSellFill(order, fill_price, fill_quantity)
    IN  /\ calls' = calls + 1
        /\ last' = [last EXCEPT
                      !.op = "on_order_filled", !.order_id = order_id,
                      !.fill_price = fill_price, !.fill_quantity = fill_quantity,
                      !.known = order # NoOrder, !.raised = FALSE,
                      !.error = "", !.exchange_ids = {}, !.status = NoStatus,
                      !.repeated = FALSE]
        /\ IF order = NoOrder
           THEN UNCHANGED <<cash, base_holdings, positions, realized_pnl,
                            total_pnl, active_orders, trades, exact_fills>>
           ELSE /\ cash' = book.cash
                /\ base_holdings' = book.base_holdings
                /\ positions' = book.positions
                /\ realized_pnl' = book.realized_pnl
                /\ total_pnl' = book.total_pnl
                /\ active_orders' =
                       Remove([active_orders EXCEPT
                                 ![order_id].status = StatusFILLED], order_id)
                /\ trades' = trades \cup {[order_id |-> order_id,
                                              price |-> fill_price,
                                              quantity |-> fill_quantity]}
                /\ exact_fills' = (exact_fills /\ fill_price = order.price
                                               /\ fill_quantity = order.quantity)
        /\ UNCHANGED <<config, max_equity, max_drawdown, price_history, actions>>

-----------------------------------------------------------------------------
(* LiveTradingBot.reconcile_orders, as it acts on the engine *)

\* a reconciliation that finds no active order missing
MissingOnExchangeNone(exchange_order_ids) == {}

\* a reconciliation that takes every active order for missing
MissingOnExchangeAll(exchange_order_ids) == DOMAIN active_orders

\* the active orders whose id the exchange does not report open
MissingOnExchange(exchange_order_ids) ==
    DOMAIN active_orders \ exchange_order_ids

\* exchange_order_ids: the ids the exchange reports open
Reconcile(exchange_order_ids) ==
    LET strategy_order_ids == DOMAIN active_orders
        missing_on_exchange == MissingOnExchange(exchange_order_ids)
    IN  /\ calls' = calls + 1
        /\ active_orders' =
               [id \in strategy_order_ids \ missing_on_exchange |-> active_orders[id]]
        /\ last' = [last EXCEPT
                      !.op = "reconcile", !.order_id = None, !.fill_price = 0,
                      !.fill_quantity = 0, !.known = FALSE, !.raised = FALSE,
                      !.error = "", !.exchange_ids = exchange_order_ids,
                      !.status = NoStatus,
                      !.repeated = FALSE]
        /\ UNCHANGED <<config, cash, base_holdings, positions, total_pnl,
                       realized_pnl, max_equity, max_drawdown, price_history,
                       actions, trades, exact_fills>>

-----------------------------------------------------------------------------
(* GridStrategy.get_status *)

\* a status call that raises the high-water mark to the equity it reports
MaxEquityMarkedByStatus(current_equity) ==
    IF current_equity > max_equity THEN current_equity ELSE max_equity

\* max_equity after get_status, which reads it and never writes it
MaxEquityAfterStatus(current_equity) == max_equity

\* the dict get_status returns; its equity is marked at the fixed approximate
\* price, not at a market price
StatusDict ==
    LET current_equity == cash + base_holdings * ApproxBasePrice
    IN  [cash |-> cash, base_holdings |-> base_holdings,
         equity |-> current_equity, realized_pnl |-> realized_pnl,
         total_pnl |-> total_pnl, max_equity |-> max_equity,
         drawdown |-> Frac(max_equity - current_equity, max_equity),
         active_orders |-> Cardinality(DOMAIN active_orders),
         positions |-> Cardinality(DOMAIN positions),
         config |-> config]

GetStatus ==
    /\ calls' = calls + 1
    /\ max_equity' = MaxEquityAfterStatus(cash + base_holdings * ApproxBasePrice)
    /\ last' = [last EXCEPT
                  !.op = "get_status", !.order_id = None, !.fill_price = 0,
                  !.fill_quantity = 0, !.known = FALSE, !.raised = FALSE,
                  !.error = "", !.exchange_ids = {}, !.status = StatusDict,
                  !.repeated = (last.op = "get_status")]
    /\ UNCHANGED <<config, cash, base_holdings, active_orders, positions,
                   total_pnl, realized_pnl, max_drawdown, price_history,
                   actions, trades, exact_fills>>

-----------------------------------------------------------------------------
(* The calls the driver can make *)

\* the fills of an active order: exact (its price, its quantity), or partial
\* at a better price (one tick less, one qty_step less)
OrderFills(order_id) ==
    LET order == active_orders[order_id]
    IN  {f \in {<<order.price, order.quantity>>,
                <<order.price - config.tick_size, order.quantity - config.qty_step>>} :
            f[1] > 0 /\ f[2] > 0}

\* the fill reported for the take-profit order of each position, under the id
\* the position records for it: at tp_price, for the position's quantity
TakeProfitFills ==
    {[order_id |-> positions[k].tp_order_id, price |-> positions[k].tp_price,
      quantity |-> positions[k].quantity] : k \in DOMAIN positions}

\* the fill reported for what a partial fill left of an order: at the
\* order's price, for the one qty_step the partial fill of OrderFills left
RemainderFills ==
    IF exact_fills THEN {}
    ELSE {[order_id |-> t.order_id, price |-> t.price + config.tick_size,
           quantity |-> config.qty_step] : t \in trades}

\* fills reported under an id that is not active: a trade reported again,
\* or the fill of a position's take-profit order
UnknownFills ==
    {t \in trades \cup TakeProfitFills \cup RemainderFills :
        t.order_id \notin DOMAIN active_orders}

Step ==
    /\ calls < MaxCalls
    /\ \E current_price \in Prices : StepBook(current_price)
    /\ UNCHANGED driver

FillKnown ==
    /\ calls < MaxCalls
    /\ \E order_id \in DOMAIN active_orders :
           \E f \in OrderFills(order_id) : OnOrderFilled(order_id, f[1], f[2])
    /\ UNCHANGED driver

FillUnknown ==
    /\ calls < MaxCalls
    /\ \E t \in UnknownFills : OnOrderFilled(t.order_id, t.price, t.quantity)
    /\ UNCHANGED driver

Status ==
    /\ calls < MaxCalls
    /\ GetStatus
    /\ UNCHANGED driver

\* what the exchange can report open: none of the active orders, or all of
\* them but one
ExchangeReports ==
    {{}} \cup {DOMAIN active_orders \ {id} : id \in DOMAIN active_orders}

ReconcileOrders ==
    /\ calls < MaxCalls
    /\ \E exchange_order_ids \in ExchangeReports : Reconcile(exchange_order_ids)
    /\ UNCHANGED driver

Next == Step \/ FillKnown \/ FillUnknown \/ ReconcileOrders \/ Status

Spec == Init /\ [][Next]_vars

\* ---------------------------------------------------------------------------
\* on_order_filled applied to a take-profit order.  step_book places no SELL
\* order and _handle_buy_fill leaves Position.tp_order_id unset (its last line
\* is the TODO for the external interface), so _handle_sell_fill is given its
\* inputs here: an engine that has ticked once, bought one level, and in
\* which the embedding program has registered the take-profit order of that
\* position in active_orders, with or without recording its id in the
\* position.
\* ---------------------------------------------------------------------------

\* the id the embedding program gave the take-profit order
TpOrderId == [level2f |-> -(3), n |-> 0]

SellInit ==
    /\ config \in {ConfigPercent, ConfigAtr}
    /\ \E recorded \in BOOLEAN :
         LET tick == 80
             buy_price == 76
             quantity == 12
             level_key == 77
             tp == IF config.tp_mode = "step"
                   THEN FAdd(FromInt(buy_price), GetGridStep(<<tick>>, buy_price))
                   ELSE FMul(FromInt(buy_price), FAdd(FromInt(1), config.tp_percent))
             tp_price == NormalizePrice(tp)
         IN  /\ cash = config.quote_start - buy_price * quantity
             /\ base_holdings = config.base_start_quote \div ApproxBasePrice + quantity
             /\ active_orders =
                    Put(EmptyMap, TpOrderId,
                        [symbol |-> config.symbol, id |-> TpOrderId, side |-> SELL,
                         price |-> tp_price, quantity |-> quantity,
                         status |-> StatusNEW, level_key |-> level_key])
             /\ positions =
                    Put(EmptyMap, level_key,
                        [level_price |-> buy_price, quantity |-> quantity,
                         buy_price |-> buy_price, tp_price |-> tp_price,
                         tp_order_id |-> IF recorded THEN TpOrderId ELSE None])
             /\ price_history = <<tick>>
    /\ total_pnl = 0
    /\ realized_pnl = 0
    /\ max_equity = config.quote_start
    /\ max_drawdown = 0
    /\ actions = NoActions
    /\ last = NoCall
    /\ calls = 0
    /\ trades = {}
    /\ exact_fills = TRUE
    /\ pc = "check_fills"
    /\ cycle_count = 0
    /\ mock_orders = <<>>

SellSpec == SellInit /\ [][Next]_vars

\* ---------------------------------------------------------------------------
\* A run that only feeds prices: step_book called MaxTicks times on a fresh
\* engine, long enough for the price history to be cut.
\* ---------------------------------------------------------------------------

\* ConfigPercent for an engine that starts with base holdings, so that a
\* falling price alone draws the equity down
ConfigHeld == [ConfigPercent EXCEPT !.base_start_quote = 180000]

\* ConfigAtr with a window of three prices
ConfigWindow3 == [ConfigAtr EXCEPT !.atr_window = 3]

TickConfigs == Configs \cup {ConfigHeld, ConfigWindow3}

TickInit ==
    /\ config \in TickConfigs
    /\ cash = config.quote_start
    /\ base_holdings = config.base_start_quote \div ApproxBasePrice
    /\ active_orders = EmptyMap
    /\ positions = EmptyMap
    /\ total_pnl = 0
    /\ realized_pnl = 0
    /\ max_equity = config.quote_start
    /\ max_drawdown = 0
    /\ price_history = <<>>
    /\ actions = NoActions
    /\ last = NoCall
    /\ calls = 0
    /\ trades = {}
    /\ exact_fills = TRUE
    /\ pc = "check_fills"
    /\ cycle_count = 0
    /\ mock_orders = <<>>

Tick ==
    /\ calls < MaxTicks
    /\ \E current_price \in Prices : StepBook(current_price)
    /\ UNCHANGED driver

TickSpec == TickInit /\ [][Tick]_vars

-----------------------------------------------------------------------------
(* LiveTradingBot on the mock gateway (use_mock = True): run,              *)
(* run_strategy_cycle and stop.  pc is the step the bot is at:             *)
(* "check_fills", "step_book", "execute_orders", "count" (steps 6 and 7 of *)
(* the cycle), "reconcile", "log_status", "sleep", "stop", "stopped".      *)

\* MockMexcAPIClient.mock_price, which ticker_price returns on every poll, in
\* the price unit of the model
MockPrice == 100

\* the cycle runs reconcile_orders when cycle_count % 10 == 0
ReconcileEvery == 10

\* the cycle runs log_status when cycle_count % 5 == 0
StatusEvery == 5

\* the id the gateway gives to the k-th order placed with it: str(k)
ExchangeId(k) == [level2f |-> -(2), n |-> k]

\* open_orders: the ids of the gateway's orders with status NEW
OpenOrderIds ==
    {ExchangeId(k) : k \in {j \in 1..Len(mock_orders) : mock_orders[j].status = "NEW"}}

\* a driver that reconciles on every cycle
ReconcileDueAlways(count) == TRUE

ReconcileDue(count) == count % ReconcileEvery = 0

StatusDue(count) == count % StatusEvery = 0

\* check_fills: my_trades gives no trade (the mock client has no session and
\* the call fails, which check_fills logs), or the gateway reports the trade
\* of an order it holds open, under the gateway's id
LiveCheckFills ==
    /\ pc = "check_fills"
    /\ \/ UNCHANGED engine
       \/ \E k \in 1..Len(mock_orders) :
            /\ mock_orders[k].status = "NEW"
            /\ OnOrderFilled(ExchangeId(k), mock_orders[k].price,
                             mock_orders[k].quantity)
    /\ pc' = "step_book"
    /\ UNCHANGED <<cycle_count, mock_orders>>

\* step 3 of the cycle; an exception of step_book leaves the cycle and run
\* calls stop
LiveStepBook ==
    /\ pc = "step_book"
    /\ StepBook(MockPrice)
    /\ pc' = IF last'.raised THEN "stop"
             ELSE IF actions'.place_orders # <<>> \/ actions'.cancel_orders # <<>>
             THEN "execute_orders"
             ELSE "count"
    /\ UNCHANGED <<cycle_count, mock_orders>>

\* place_order of the mock gateway for the j-th order of place_orders
MockOrder(order) ==
    [symbol |-> order.symbol, side |-> order.side, quantity |-> order.quantity,
     price |-> order.price, status |-> "NEW"]

\* the position in place_orders of the order object stored under key, 0 if none
PlacedAt(key) ==
    IF \E j \in 1..Len(actions.place_orders) : actions.place_orders[j].id = key
    THEN CHOOSE j \in 1..Len(actions.place_orders) : actions.place_orders[j].id = key
    ELSE 0

\* the number of orders among the first j of place_orders whose submission
\* did not fail
Accepted(j, failed) == Cardinality({i \in 1..j : i \notin failed})

\* execute_orders: every order of place_orders is submitted to the gateway.
\* A submission can fail (place_order raises, MexcAPIClient._request
\* re-raises a failed POST /order); the error is logged and the loop goes on
\* with the next order.  The Order object of an accepted order takes the
\* gateway's id (the key it is stored under in active_orders stays); the
\* order whose submission failed stays in active_orders as it is.  Every id
\* of cancel_orders is canceled at the gateway.
LiveExecuteOrders ==
    /\ pc = "execute_orders"
    /\ \E failed \in SUBSET (1..Len(actions.place_orders)) :
         LET n == Len(mock_orders)
             total == Len(actions.place_orders)
             placed == [r \in 1..Accepted(total, failed) |->
                           MockOrder(actions.place_orders[
                               CHOOSE j \in 1..total :
                                   j \notin failed /\ Accepted(j, failed) = r])]
             booked == mock_orders \o placed
         IN  /\ mock_orders' =
                    [k \in 1..Len(booked) |->
                        IF ExchangeId(k) \in Range(actions.cancel_orders)
                        THEN [booked[k] EXCEPT !.status = "CANCELED"]
                        ELSE booked[k]]
             /\ active_orders' =
                    [key \in DOMAIN active_orders |->
                        IF PlacedAt(key) # 0 /\ PlacedAt(key) \notin failed
                        THEN [active_orders[key] EXCEPT
                                !.id = ExchangeId(n + Accepted(PlacedAt(key), failed))]
                        ELSE active_orders[key]]
             /\ actions' =
                    [actions EXCEPT !.place_orders =
                        [j \in 1..total |->
                            IF j \in failed THEN actions.place_orders[j]
                            ELSE [actions.place_orders[j] EXCEPT
                                    !.id = ExchangeId(n + Accepted(j, failed))]]]
    /\ pc' = "count"
    /\ UNCHANGED <<config, cash, base_holdings, positions, total_pnl,
                   realized_pnl, max_equity, max_drawdown, price_history,
                   last, calls, trades, exact_fills, cycle_count>>

\* steps 6 and 7 of the cycle: the count and what is due on it
LiveCount ==
    /\ pc = "count"
    /\ cycle_count' = cycle_count + 1
    /\ pc' = IF ReconcileDue(cycle_count') THEN "reconcile"
             ELSE IF StatusDue(cycle_count') THEN "log_status"
             ELSE "sleep"
    /\ UNCHANGED engine
    /\ UNCHANGED mock_orders

LiveReconcile ==
    /\ pc = "reconcile"
    /\ Reconcile(OpenOrderIds)
    /\ pc' = IF StatusDue(cycle_count) THEN "log_status" ELSE "sleep"
    /\ UNCHANGED <<cycle_count, mock_orders>>

LiveLogStatus ==
    /\ pc = "log_status"
    /\ GetStatus
    /\ pc' = "sleep"
    /\ UNCHANGED <<cycle_count, mock_orders>>

\* run: after time.sleep the loop starts the next cycle
LiveSleep ==
    /\ pc = "sleep"
    /\ cycle_count < MaxCycles
    /\ pc' = "check_fills"
    /\ UNCHANGED engine
    /\ UNCHANGED <<cycle_count, mock_orders>>

\* Ctrl+C: KeyboardInterrupt ends the loop wherever it is and run calls stop
LiveInterrupt ==
    /\ pc \notin {"stop", "stopped"}
    /\ pc' = "stop"
    /\ UNCHANGED engine
    /\ UNCHANGED <<cycle_count, mock_orders>>

\* stop: every order the gateway reports open is canceled at the gateway
\* the gateway's book after the cancel loop of stop(): the loop runs over
\* the open orders inside one try block, so when the cancel of the order at
\* position `failed` raises (0: no cancel raises) that order and every open
\* order after it are left as they are
CancelUntil(failed) ==
    [k \in 1..Len(mock_orders) |->
        IF mock_orders[k].status = "NEW" /\ (failed = 0 \/ k < failed)
        THEN [mock_orders[k] EXCEPT !.status = "CANCELED"]
        ELSE mock_orders[k]]

\* stop().  A cancel request can raise: MexcAPIClient._request re-raises the
\* RequestException of a failed DELETE /order.
LiveStop ==
    /\ pc = "stop"
    /\ \E failed \in {0} \cup {k \in 1..Len(mock_orders) :
                                  mock_orders[k].status = "NEW"} :
           mock_orders' = CancelUntil(failed)
    /\ pc' = "stopped"
    /\ UNCHANGED engine
    /\ UNCHANGED cycle_count

LiveNext ==
    \/ LiveCheckFills
    \/ LiveStepBook
    \/ LiveExecuteOrders
    \/ LiveCount
    \/ LiveReconcile
    \/ LiveLogStatus
    \/ LiveSleep
    \/ LiveInterrupt
    \/ LiveStop

LiveSpec == Init /\ [][LiveNext]_vars

-----------------------------------------------------------------------------
(* MockMexcAPIClient called directly, as test_bot.py calls it *)

\* the symbols the gateway is called with
Symbols == {"BTCUSDT", "ETHUSDT"}

\* symbol = None of open_orders
AnySymbol == ""

\* an id numbered by the orders still open
MockOrderIdOpenCount(orders) ==
    Cardinality({k \in DOMAIN orders : orders[k].status = "NEW"}) + 1

\* order_id = str(len(self.mock_orders) + 1), as the number the id spells
MockOrderId(orders) == Cardinality(DOMAIN orders) + 1

\* the ids mock_orders has an entry for
MockKnownIds == {ExchangeId(k) : k \in DOMAIN mock_orders}

\* open_orders(symbol): the ids of the orders with status NEW, of the
\* symbol when one is given
OpenOrders(symbol) ==
    {ExchangeId(k) : k \in {j \in DOMAIN mock_orders :
        /\ mock_orders[j].status = "NEW"
        /\ (symbol = AnySymbol \/ mock_orders[j].symbol = symbol)}}

\* the ids cancel_order is called with: ids the gateway gave or may give,
\* and the default None
CancelIds == {ExchangeId(k) : k \in 1..(MaxCalls + 1)} \cup {None}

\* a client on which nothing was placed, beside a fresh engine
MockInit ==
    /\ Init
    /\ config = ConfigPercent

\* place_order: the order is stored under the new id and returned
MockPlaceOrder(symbol, side, quantity, price) ==
    LET order_id == MockOrderId(mock_orders)
        order == [symbol |-> symbol, side |-> side, quantity |-> quantity,
                  price |-> price, status |-> "NEW"]
    IN  /\ mock_orders' = Put(mock_orders, order_id, order)
        /\ last' = [NoCall EXCEPT !.op = "place_order",
                                  !.order_id = ExchangeId(order_id),
                                  !.symbol = symbol]

\* cancel_order: a known order is marked CANCELED, an unknown id raises
\* ValueError
MockCancelOrder(symbol, order_id) ==
    IF order_id \in MockKnownIds
    THEN /\ mock_orders' =
                [k \in DOMAIN mock_orders |->
                    IF ExchangeId(k) = order_id
                    THEN [mock_orders[k] EXCEPT !.status = "CANCELED"]
                    ELSE mock_orders[k]]
         /\ last' = [NoCall EXCEPT !.op = "cancel_order", !.order_id = order_id,
                                   !.symbol = symbol]
    ELSE /\ mock_orders' = mock_orders
         /\ last' = [NoCall EXCEPT !.op = "cancel_order", !.order_id = order_id,
                                   !.symbol = symbol, !.raised = TRUE,
                                   !.error = "ValueError"]

\* open_orders: the book is read, not written
MockOpenOrders(symbol) ==
    /\ last' = [NoCall EXCEPT !.op = "open_orders", !.symbol = symbol,
                              !.exchange_ids = OpenOrders(symbol)]
    /\ mock_orders' = mock_orders

MockPlace ==
    /\ Cardinality(DOMAIN mock_orders) < MaxCalls
    /\ \E symbol \in Symbols :
          MockPlaceOrder(symbol, BUY, 1, MockPrice - 1)
    /\ UNCHANGED <<config, cash, base_holdings, active_orders, positions,
                   total_pnl, realized_pnl, max_equity, max_drawdown,
                   price_history, actions, calls, trades, exact_fills, pc,
                   cycle_count>>

MockCancel ==
    /\ \E symbol \in Symbols, order_id \in CancelIds :
          MockCancelOrder(symbol, order_id)
    /\ UNCHANGED <<config, cash, base_holdings, active_orders, positions,
                   total_pnl, realized_pnl, max_equity, max_drawdown,
                   price_history, actions, calls, trades, exact_fills, pc,
                   cycle_count>>

MockOpen ==
    /\ \E symbol \in Symbols \cup {AnySymbol} : MockOpenOrders(symbol)
    /\ UNCHANGED <<config, cash, base_holdings, active_orders, positions,
                   total_pnl, realized_pnl, max_equity, max_drawdown,
                   price_history, actions, calls, trades, exact_fills, pc,
                   cycle_count>>

MockNext ==
    \/ MockPlace
    \/ MockCancel
    \/ MockOpen

MockSpec == MockInit /\ [][MockNext]_vars

-----------------------------------------------------------------------------
(* Properties *)

ActiveBuys == {id \in DOMAIN active_orders : active_orders[id].side = BUY}

\* C1 (Non-negativity): as long as every processed fill was for an order the
\* engine placed, at that order's price and quantity, cash >= 0.
C1_CashNonNegative == exact_fills => cash >= 0

\* C2 (Uniqueness): no two active BUY orders have the same level_key.
C2_UniqueBuyLevelKeys ==
    \A a, b \in ActiveBuys :
        a # b => active_orders[a].level_key # active_orders[b].level_key

\* C3 (Gating): a step_book call at a price whose drawdown exceeds
\* kill_switch_frac returns no place_orders and leaves active_orders as it was.
C3_Gating ==
    [][(last'.op = "step_book"
          /\ FLess(config.kill_switch_frac, Drawdown(last'.price)))
       => (actions'.place_orders = <<>> /\ active_orders' = active_orders)]_vars

\* C3 witness: a tick over the kill threshold met a book with active orders
\* and returned no order
C3_GatedTick ==
    /\ last.op = "step_book"
    /\ last.over_kill
    /\ DOMAIN active_orders # {}
    /\ actions.place_orders = <<>>

\* C4 (Halt liquidation): on the tick at which the drawdown first exceeds
\* kill_switch_frac, step_book returns a liquidation set: the id of every
\* active order in cancel_orders and a SELL order for every open position.
C4_HaltLiquidation ==
    (last.op = "step_book" /\ last.over_kill /\ ~last.prev_over_kill)
    => /\ DOMAIN active_orders \subseteq Range(actions.cancel_orders)
       /\ \A k \in DOMAIN positions :
            \E o \in Range(actions.place_orders) :
                o.side = SELL /\ o.level_key = k

\* C5 (Conservation): base_holdings is the sum of the positions' quantities.
C5_Conservation == base_holdings = SumQuantity(positions, DOMAIN positions)

\* C6 (Round-trip P&L): when the fill of a position's take-profit order is
\* reported (under the id the position records) at buy_price + step, for a
\* positive step and the position's quantity, realized_pnl grows by
\* step * quantity and the position is deleted.
C6_RoundTripPnl ==
    [][\A k \in DOMAIN positions :
         (/\ last'.op = "on_order_filled"
          /\ last'.order_id = positions[k].tp_order_id
          /\ last'.fill_price > positions[k].buy_price
          /\ FromInt(last'.fill_price) =
                FAdd(FromInt(positions[k].buy_price),
                     GetGridStep(price_history, positions[k].buy_price))
          /\ last'.fill_quantity = positions[k].quantity)
         => (/\ realized_pnl' = realized_pnl
                   + (last'.fill_price - positions[k].buy_price)
                       * positions[k].quantity
             /\ k \notin DOMAIN positions')]_vars

\* C7 (Take-profit placement): every position records the id of its
\* take-profit order.
C7_TakeProfitRecorded ==
    \A k \in DOMAIN positions : positions[k].tp_order_id # None

\* C8 (Monotonic watermark): max_equity never decreases, and after a
\* step_book call it is at least cash + base_holdings * that tick's price.
C8_MonotonicWatermark ==
    [][/\ max_equity' >= max_equity
       /\ last'.op = "step_book"
            => max_equity' >= cash' + base_holdings' * last'.price]_vars

\* C8 witness: a tick raised the high-water mark to that tick's equity
C8_WatermarkRaised ==
    /\ last.op = "step_book"
    /\ max_equity > config.quote_start
    /\ max_equity = cash + base_holdings * last.price

C10_UnknownFillNoOp ==
    [][(last'.op = "on_order_filled" /\ last'.order_id \notin DOMAIN active_orders)
       => UNCHANGED <<cash, base_holdings, positions, active_orders,
                      realized_pnl, total_pnl, max_equity>>]_vars

\* C10 witness: a fill was reported a second time, for an id filled before,
\* while other orders were active
C10_RepeatedFill ==
    /\ last.op = "on_order_filled"
    /\ ~last.known
    /\ \E t \in trades : t.order_id = last.order_id
    /\ DOMAIN active_orders # {}

\* C11 (Reconciliation): reconcile removes exactly the active orders whose id
\* is not in the set the exchange reports, keeps every other order as it was,
\* and leaves the account and the positions alone.
C11_ReconcileFrame ==
    [][last'.op = "reconcile"
       => /\ DOMAIN active_orders' = DOMAIN active_orders \cap last'.exchange_ids
          /\ \A id \in DOMAIN active_orders' : active_orders'[id] = active_orders[id]
          /\ UNCHANGED <<cash, base_holdings, positions, realized_pnl,
                         total_pnl>>]_vars

\* C11 witness: with no fill so far, a reconcile dropped an order step_book
\* had placed and kept the orders the exchange reported
C11_DroppedAndKept ==
    /\ last.op = "reconcile"
    /\ last.exchange_ids # {}
    /\ DOMAIN active_orders = last.exchange_ids
    /\ trades = {}
    /\ \E o \in Range(actions.place_orders) : o.id \notin DOMAIN active_orders

\* C12 (Fresh-engine scenario): the first step_book of a newly constructed
\* engine in percent mode with a complete configuration and cash that covers
\* the size of a level is in the Normal state and places levels_below BUY
\* orders, the i-th priced at
\* normalize((price - i * step) * (1 - maker_buffer_frac)).
C12_FreshEngine ==
    [][(/\ price_history = <<>>
        /\ DOMAIN active_orders = {}
        /\ DOMAIN positions = {}
        /\ config.mode = "percent"
        /\ config.missing = {}
        /\ last'.op = "step_book"
        /\ ~FLess(FromInt(cash), CalculatePositionSize(0, last'.price)))
       => /\ ~last'.over_pause
          /\ ~last'.over_kill
          /\ Len(actions'.place_orders) = config.levels_below
          /\ \A i \in 1..config.levels_below :
               LET price == FromInt(last'.price)
                   step == FMul(price, config.step_percent)
                   level == FSub(price, FMul(FromInt(i), step))
                   o == actions'.place_orders[i]
               IN  /\ o.side = BUY
                   /\ o.price = NormalizePrice(
                          FMul(level, FSub(FromInt(1), config.maker_buffer_frac)))
                   /\ o.id \in DOMAIN active_orders'
                   /\ active_orders'[o.id] = o]_vars

\* C12 witness: the first call on a percent-mode engine was a step_book that
\* placed levels_below orders
C12_FirstTick ==
    /\ calls = 1
    /\ last.op = "step_book"
    /\ config.mode = "percent"
    /\ Len(actions.place_orders) = config.levels_below
    /\ Cardinality(DOMAIN active_orders) = config.levels_below

\* C13 (getStatus is read-only and idempotent): get_status changes no field
\* of the engine, and a get_status call that directly follows another returns
\* the same dict.
C13_GetStatusReadOnly ==
    [][last'.op = "get_status"
       => /\ UNCHANGED <<config, cash, base_holdings, active_orders, positions,
                         total_pnl, realized_pnl, max_equity, max_drawdown,
                         price_history>>
          /\ last.op = "get_status" => last'.status = last.status]_vars

\* C13 witness: two get_status calls in a row on an engine that holds base,
\* an active order and a position
C13_StatusTwice ==
    /\ last.op = "get_status"
    /\ last.repeated
    /\ DOMAIN active_orders # {}
    /\ DOMAIN positions # {}

\* C14 (Fail-fast construction): no constructed engine meets its first
\* failure on a missing parameter inside step_book.
C14_FailFast == ~(last.op = "step_book" /\ last.raised /\ last.error = "KeyError")

\* C15 (Order lifecycle): every active order has status NEW; the order a fill
\* marks FILLED is out of active_orders when on_order_filled returns; an
\* order enters active_orders only as a NEW order placed by step_book.
C15_OrderLifecycle ==
    [][/\ \A id \in DOMAIN active_orders' : active_orders'[id].status = StatusNEW
       /\ (last'.op = "on_order_filled" /\ last'.known)
            => last'.order_id \notin DOMAIN active_orders'
       /\ \A id \in DOMAIN active_orders' \ DOMAIN active_orders :
            /\ last'.op = "step_book"
            /\ active_orders'[id] \in Range(actions'.place_orders)]_vars

\* C15 witness: an order was filled and removed while another stayed active
C15_FilledAndRemoved ==
    /\ last.op = "on_order_filled"
    /\ last.known
    /\ last.order_id \notin DOMAIN active_orders
    /\ DOMAIN active_orders # {}

\* C16 (Position per level): after a BUY fill the position of the order's
\* level_key holds what the level held before plus the filled quantity (the
\* fill does not replace an existing position).
C16_PositionPerLevel ==
    [][(/\ last'.op = "on_order_filled"
        /\ last'.known
        /\ active_orders[last'.order_id].side = BUY)
       => LET k == active_orders[last'.order_id].level_key
              held == IF k \in DOMAIN positions THEN positions[k].quantity ELSE 0
          IN  /\ k \in DOMAIN positions'
              /\ positions'[k].quantity = held + last'.fill_quantity]_vars

\* C17 (Anti-accumulation): no level_key has both an active BUY order and an
\* open position.
C17_AntiAccumulation ==
    \A id \in ActiveBuys : active_orders[id].level_key \notin DOMAIN positions

\* C18 (Single-writer serialization): in the live driver a step applies at
\* most one operation to the engine; on_order_filled is applied only at the
\* check_fills step, step_book only at the step_book step and reconcile only
\* at the reconcile step, which is entered only when cycle_count is a
\* multiple of 10; the steps follow in the order check_fills, step_book,
\* execute_orders, count, reconcile, and check_fills is entered only from the
\* sleep that ends the previous cycle.
C18_SingleWriter ==
    [][/\ calls' \in {calls, calls + 1}
       /\ calls' # calls
            => \/ pc = "check_fills" /\ last'.op = "on_order_filled"
               \/ pc = "step_book" /\ last'.op = "step_book"
               \/ pc = "reconcile" /\ last'.op = "reconcile"
               \/ pc = "log_status" /\ last'.op = "get_status"
       /\ pc' # pc
            => \/ pc' = "stop"
               \/ pc = "check_fills" /\ pc' = "step_book"
               \/ pc = "step_book" /\ pc' \in {"execute_orders", "count"}
               \/ pc = "execute_orders" /\ pc' = "count"
               \/ pc = "count" /\ pc' \in {"reconcile", "log_status", "sleep"}
               \/ pc = "reconcile" /\ pc' \in {"log_status", "sleep"}
               \/ pc = "log_status" /\ pc' = "sleep"
               \/ pc = "sleep" /\ pc' = "check_fills"
               \/ pc = "stop" /\ pc' = "stopped"
       /\ pc' = "reconcile" => cycle_count' % 10 = 0
       /\ pc' = "check_fills" => engine' = engine]_vars

\* C18 witness: the tenth cycle went through step_book and execute_orders
\* and then reconciled the orders the bot had placed
C18_TenthCycleReconciled ==
    /\ pc = "log_status"
    /\ cycle_count = 10
    /\ last.op = "reconcile"
    /\ Len(mock_orders) > 0

\* C19 (Risk state classification): with kill_switch_frac >= dd_pause_frac, a
\* tick over the kill threshold returns the stop message, a tick over the
\* pause threshold only returns the pause message, and any other tick returns
\* neither.
C19_RiskClassification ==
    (/\ last.op = "step_book"
     /\ ~last.raised
     /\ ~FLess(config.kill_switch_frac, config.dd_pause_frac))
    => /\ last.over_kill => "STOP" \in Range(actions.messages)
       /\ (last.over_pause /\ ~last.over_kill)
            => "PAUSE" \in Range(actions.messages)
       /\ ~last.over_pause
            => /\ "PAUSE" \notin Range(actions.messages)
               /\ "STOP" \notin Range(actions.messages)

\* C20 (Recovery without cooldown), as stated: a tick whose drawdown is at
\* most dd_pause_frac returns no pause or stop message and runs the placement
\* loop on its target levels, whatever the earlier ticks were.
C20_RecoveryAsStated ==
    [][(/\ last'.op = "step_book"
        /\ ~last'.raised
        /\ ~FLess(config.dd_pause_frac, Drawdown(last'.price)))
       => /\ "PAUSE" \notin Range(actions'.messages)
          /\ "STOP" \notin Range(actions'.messages)
          /\ active_orders' =
               PlaceOrders(GetTargetLevels(price_history', last'.price), 1,
                           last'.price,
                           [orders |-> active_orders, place_orders |-> <<>>,
                            messages |-> <<>>, raised |-> FALSE]).orders]_vars

\* C20 (Recovery without cooldown), amended: a tick whose drawdown is at most
\* dd_pause_frac and at most kill_switch_frac returns no pause or stop message
\* and runs the placement loop on its target levels, whatever the earlier
\* ticks were.
C20_Recovery ==
    [][(/\ last'.op = "step_book"
        /\ ~last'.raised
        /\ ~FLess(config.dd_pause_frac, Drawdown(last'.price))
        /\ ~FLess(config.kill_switch_frac, Drawdown(last'.price)))
       => /\ "PAUSE" \notin Range(actions'.messages)
          /\ "STOP" \notin Range(actions'.messages)
          /\ active_orders' =
               PlaceOrders(GetTargetLevels(price_history', last'.price), 1,
                           last'.price,
                           [orders |-> active_orders, place_orders |-> <<>>,
                            messages |-> <<>>, raised |-> FALSE]).orders]_vars

\* C20 witness: the tick after a halted tick was under both thresholds and
\* placed orders
C20_Recovered ==
    /\ last.op = "step_book"
    /\ last.prev_over_kill
    /\ ~last.over_kill
    /\ ~last.over_pause
    /\ actions.place_orders # <<>>

\* C21 (BUY fill effect): on_order_filled for an active BUY order debits cash
\* by fill_price * fill_quantity, credits base_holdings by fill_quantity, puts
\* under the order's level_key a position of that price and quantity whose
\* tp_price is normalize(fill_price + step) in step mode and
\* normalize(fill_price * (1 + tp_percent)) in percent mode, and leaves
\* realized_pnl, total_pnl and max_equity as they were.
C21_BuyFillEffect ==
    [][(/\ last'.op = "on_order_filled"
        /\ last'.known
        /\ active_orders[last'.order_id].side = BUY)
       => LET p == last'.fill_price
              q == last'.fill_quantity
              k == active_orders[last'.order_id].level_key
              tp == IF config.tp_mode = "step"
                    THEN FAdd(FromInt(p), GetGridStep(price_history, p))
                    ELSE FMul(FromInt(p), FAdd(FromInt(1), config.tp_percent))
          IN  /\ cash' = cash - p * q
              /\ base_holdings' = base_holdings + q
              /\ k \in DOMAIN positions'
              /\ positions'[k].buy_price = p
              /\ positions'[k].quantity = q
              /\ positions'[k].tp_price = RoundHalfEven(tp.n, tp.d * config.tick_size)
                                             * config.tick_size
              /\ UNCHANGED <<realized_pnl, total_pnl, max_equity>>]_vars

\* C21 witness: a BUY order was filled below its price for less than its
\* quantity and its level holds the position of that fill
C21_PartialBuyFilled ==
    /\ last.op = "on_order_filled"
    /\ last.known
    /\ ~exact_fills
    /\ \E k \in DOMAIN positions :
         /\ positions[k].buy_price = last.fill_price
         /\ positions[k].quantity = last.fill_quantity

\* a call of on_order_filled for an active SELL order whose id a position
\* records as its take-profit order
MatchedSellFill ==
    /\ last'.op = "on_order_filled"
    /\ last'.known
    /\ active_orders[last'.order_id].side = SELL
    /\ \E k \in DOMAIN positions :
           positions[k].tp_order_id = active_orders[last'.order_id].id

\* C22 (compounding policy): a SELL fill matched to a position lowers
\* base_holdings by the fill quantity and deletes the position whether or not
\* capital.compound is set, and raises cash by fill_price * fill_quantity
\* exactly when capital.compound is set (cash is unchanged otherwise).
C22_CompoundingPolicy ==
    [][MatchedSellFill
       => /\ base_holdings' = base_holdings - last'.fill_quantity
          /\ \E k \in DOMAIN positions :
                /\ positions[k].tp_order_id = last'.order_id
                /\ DOMAIN positions' = DOMAIN positions \ {k}
          /\ cash' = IF config.compound
                     THEN cash + last'.fill_price * last'.fill_quantity
                     ELSE cash]_vars

\* C22 witness: the take-profit order of the position was filled with
\* compounding off: the position is gone and the proceeds are not in cash
C22_ProceedsWithheld ==
    /\ last.op = "on_order_filled"
    /\ last.known
    /\ last.order_id = TpOrderId
    /\ ~config.compound
    /\ positions = EmptyMap
    /\ realized_pnl # 0
    /\ cash < config.quote_start

\* C23 (P&L accounting): realized_pnl and total_pnl change only in a SELL
\* fill matched to a position, both by (fill_price - buy_price) *
\* fill_quantity; every other call (step_book, BUY fills, unmatched SELL
\* fills, unknown fills, reconcile, get_status) leaves both as they were; the
\* two are equal in every reachable state.
C23_PnlAccounting ==
    /\ [](realized_pnl = total_pnl)
    /\ [][IF MatchedSellFill
          THEN \E k \in DOMAIN positions :
                 LET profit == (last'.fill_price - positions[k].buy_price)
                                  * last'.fill_quantity
                 IN  /\ positions[k].tp_order_id = last'.order_id
                     /\ realized_pnl' = realized_pnl + profit
                     /\ total_pnl' = total_pnl + profit
          ELSE UNCHANGED <<realized_pnl, total_pnl>>]_vars

\* C23 witness: the take-profit order was filled at its price, the profit is
\* in both P&L fields, and the engine has ticked since
C23_ProfitBooked ==
    /\ realized_pnl > 0
    /\ total_pnl = realized_pnl
    /\ last.op = "step_book"

\* a call of step_book that reached the placement loop and returned
PlacementTick ==
    /\ last'.op = "step_book"
    /\ ~last'.raised
    /\ "risk" \notin config.missing
    /\ RiskBranch(last'.price) = "NONE"

\* C24 (admission rejection): can_place_buy rejects a level with the reason
\* of the first failing check, in the order occupied by a position, active
\* BUY order within a tick of the order price, notional below min_notional,
\* sizing above cash; it changes nothing; and step_book places no order for
\* a level it rejected.
C24_AdmissionRejection ==
    [][PlacementTick
       => LET p == last'.price
              target == GetTargetLevels(price_history', p)
              below == {i \in 1..Len(target) : FLess(target[i], FromInt(p))}
              OrdersAt(i) ==
                  PlaceOrders(SubSeq(target, 1, i - 1), 1, p,
                              [orders |-> active_orders, place_orders |-> <<>>,
                               messages |-> <<>>, raised |-> FALSE]).orders
              Verdict(i) == CanPlaceBuy(target[i], p, OrdersAt(i))
              occupied(i) == NormalizePrice(target[i]) \in DOMAIN positions
              duplicate(i) ==
                  \E id \in DOMAIN OrdersAt(i) :
                      /\ OrdersAt(i)[id].side = BUY
                      /\ Abs(OrdersAt(i)[id].price - OrderPrice(target[i]))
                            < config.tick_size
              size == CalculatePositionSize(0, p)
              small(i) ==
                  NormalizeQuantity(FDiv(size, FromInt(OrderPrice(target[i]))))
                      * OrderPrice(target[i]) < config.min_notional
              short == FLess(FromInt(cash), size)
          IN  /\ \A i \in below :
                  /\ Verdict(i).ok <=> Verdict(i).reason = "OK"
                  /\ Verdict(i).reason = "occupied" <=> occupied(i)
                  /\ Verdict(i).reason = "duplicate"
                        <=> ~occupied(i) /\ duplicate(i)
                  /\ Verdict(i).reason = "min_notional"
                        <=> ~occupied(i) /\ ~duplicate(i) /\ small(i)
                  /\ Verdict(i).reason = "cash"
                        <=> ~occupied(i) /\ ~duplicate(i) /\ ~small(i) /\ short
                  /\ ~Verdict(i).ok
                        => /\ \A n \in 1..Len(actions'.place_orders) :
                                 actions'.place_orders[n].id.level2f
                                    # Format2f(target[i])
                           /\ OrdersAt(i + 1) = OrdersAt(i)
              /\ (\A i \in below : ~Verdict(i).ok)
                    => /\ active_orders' = active_orders
                       /\ actions'.place_orders = <<>>
              /\ UNCHANGED <<cash, base_holdings, positions>>]_vars

\* C24 witness: a tick reached the placement loop with a target level below
\* the price occupied by a position, and placed fewer orders than levels
C24_OccupiedLevelRejected ==
    /\ last.op = "step_book"
    /\ ~last.raised
    /\ "risk" \notin config.missing
    /\ Len(actions.messages) = Len(actions.place_orders)
    /\ Len(actions.place_orders) < config.levels_below
    /\ LET target == GetTargetLevels(price_history, last.price)
       IN  \E i \in 1..Len(target) :
              /\ FLess(target[i], FromInt(last.price))
              /\ NormalizePrice(target[i]) \in DOMAIN positions

\* C25 (admitted order size): every order step_book places, under linear and
\* geometric sizing and at every level index, has a notional quantity * price
\* of at least min_notional and at most the cash of the engine.
C25_AdmittedOrderSize ==
    last.op = "step_book"
        => \A n \in 1..Len(actions.place_orders) :
              LET order == actions.place_orders[n]
              IN  /\ order.quantity * order.price >= config.min_notional
                  /\ order.quantity * order.price <= cash

\* C26 (buy-side only): every order a call of step_book places is a BUY with
\* status NEW for a target level strictly below current_price; a call places
\* at most levels_below orders; a target level at or above current_price
\* never produces an order.
C26_BuySideOnly ==
    [][(last'.op = "step_book" /\ ~last'.raised)
       => LET p == last'.price
              target == GetTargetLevels(price_history', p)
              placed == actions'.place_orders
          IN  /\ Len(placed) <= config.levels_below
              /\ \A n \in 1..Len(placed) :
                    /\ placed[n].side = BUY
                    /\ placed[n].status = StatusNEW
                    /\ placed[n].price < p
                    /\ \E i \in 1..Len(target) :
                          /\ FLess(target[i], FromInt(p))
                          /\ placed[n].id.level2f = Format2f(target[i])
                          /\ placed[n].level_key = NormalizePrice(target[i])
              /\ \A i \in 1..Len(target) :
                    ~FLess(target[i], FromInt(p))
                       => \A n \in 1..Len(placed) :
                             placed[n].id.level2f # Format2f(target[i])
              /\ \A id \in DOMAIN active_orders' \ DOMAIN active_orders :
                    \E n \in 1..Len(placed) : placed[n].id = id]_vars

\* C26 witness: with a level configured above the price, a tick placed an
\* order for each level below it and none for the level above
C26_OnlyBelowPlaced ==
    /\ last.op = "step_book"
    /\ ~last.raised
    /\ config.levels_above > 0
    /\ Len(actions.place_orders) = config.levels_below
    /\ Len(GetTargetLevels(price_history, last.price)) > config.levels_below

\* C27 (bounded order stacking): across any sequence of ticks with no fills
\* in between, the number of active BUY orders never exceeds levels_below.
C27_BoundedStacking ==
    trades = {} => Cardinality(ActiveBuys) <= config.levels_below

\* C28 (bounded price history): after every call of step_book, whatever the
\* risk branch, the history holds at most 2 * atr_window prices; a call whose
\* append would make it longer leaves the most recent atr_window prices, the
\* new one last, in their order; any other call appends the price.
C28_BoundedHistory ==
    [][last'.op = "step_book"
       => LET w == config.atr_window
              n == Len(price_history)
          IN  /\ Len(price_history') <= 2 * w
              /\ IF n + 1 > 2 * w
                 THEN price_history' =
                        [j \in 1..w |-> IF j < w
                                        THEN price_history[n + 1 - w + j]
                                        ELSE last'.price]
                 ELSE price_history' = Append(price_history, last'.price)]_vars

\* C28 witness: the history was cut in a tick that the risk guard stopped,
\* and the prices kept differ
C28_CutWhileGated ==
    /\ last.op = "step_book"
    /\ calls > 2 * config.atr_window
    /\ Len(price_history) = config.atr_window
    /\ price_history[1] # price_history[Len(price_history)]
    /\ actions.place_orders = <<>>
    /\ Len(actions.messages) = 1

\* C29 (warm-up fallback): in atr mode get_grid_step(p) is p * 0.004, which
\* is positive for p > 0, while the history holds fewer than atr_window
\* prices, and atr_k times the mean absolute difference of consecutive prices
\* among the last atr_window prices once it holds at least atr_window.
C29_WarmupFallback ==
    config.mode = "atr"
        => \A p \in Prices :
              LET w == config.atr_window
                  n == Len(price_history)
                  g == GetGridStep(price_history, p)
                  S[j \in 0..(w - 1)] ==
                      IF j = 0 THEN 0
                      ELSE S[j - 1] + Abs(price_history[n - j + 1]
                                             - price_history[n - j])
              IN  /\ g.d > 0
                  /\ IF n < w
                     THEN /\ g.n * 1000 = p * 4 * g.d
                          /\ g.n > 0
                     ELSE g.n * (w - 1) * config.atr_k.d
                             = S[w - 1] * config.atr_k.n * g.d

\* C29 witness: in atr mode the history is longer than the window and its
\* last two prices differ, so the step is a mean of real differences
C29_AtrFromWindow ==
    /\ config.mode = "atr"
    /\ last.op = "step_book"
    /\ Len(price_history) > config.atr_window
    /\ price_history[Len(price_history)] # price_history[Len(price_history) - 1]
    /\ price_history[1] # price_history[2]
    /\ GetGridStep(price_history, last.price).n > 0

\* C30 (shutdown cancels everything): once stop() has returned the bot is not
\* running and no order that was open at the gateway when stop was called is
\* still open, even if one of the cancel requests failed.
C30_ShutdownCancelsAll ==
    pc = "stopped"
        => \A k \in 1..Len(mock_orders) : mock_orders[k].status # "NEW"

\* a call of check_fills in which the gateway reported the trade of an order
\* that execute_orders submitted, under the id the gateway gave that order
GatewayFill ==
    /\ pc = "check_fills"
    /\ pc' = "step_book"
    /\ last'.op = "on_order_filled"
    /\ \E k \in 1..Len(mock_orders) : last'.order_id = ExchangeId(k)

\* C31 (gateway fills reach the engine): a fill the gateway reports under
\* the orderId it assigned to an order that step_book placed and
\* execute_orders submitted is applied by on_order_filled to that order:
\* the order is found in active_orders and cash, base_holdings and positions
\* change.
C31_GatewayFillsApplied ==
    [][GatewayFill
       => /\ last'.known
          /\ cash' = cash - last'.fill_price * last'.fill_quantity
          /\ base_holdings' = base_holdings + last'.fill_quantity
          /\ positions' # positions]_vars

\* C32 (reconciliation never drops a live order): an order the engine placed,
\* that the gateway accepted and still reports open, is still in
\* active_orders after reconcile_orders has run.
C32_LiveOrderKept ==
    [][(pc = "reconcile" /\ pc' # "stop")
       => \A key \in DOMAIN active_orders :
             active_orders[key].id \in OpenOrderIds
                => key \in DOMAIN active_orders']_vars

C35_StepIdempotent ==
    [][(/\ last.op = "step_book"
        /\ last'.op = "step_book"
        /\ calls' = calls + 1
        /\ last'.price = last.price)
       => /\ actions'.place_orders = <<>>
          /\ UNCHANGED <<active_orders, positions, cash, base_holdings,
                         realized_pnl, total_pnl, max_equity>>]_vars

\* the active orders whose submission to the gateway failed: execute_orders
\* has run and the Order object still carries the engine's id
FailedPlacements ==
    IF pc = "execute_orders" THEN {}
    ELSE {key \in DOMAIN active_orders : active_orders[key].id = key}

\* C36 (failed placements are cleaned up): an order step_book put in
\* active_orders whose submission failed in execute_orders is removed by the
\* next reconcile_orders, which runs by the tenth cycle; until then no order
\* is placed within a tick of its price, and no fill report removes it or
\* books it.
C36_FailedPlacementCleaned ==
    /\ [][(pc = "reconcile" /\ last'.op = "reconcile" /\ calls' = calls + 1)
          => \A key \in FailedPlacements : key \notin DOMAIN active_orders']_vars
    /\ []((/\ pc \in {"log_status", "sleep", "check_fills"}
           /\ cycle_count > 0
           /\ cycle_count % ReconcileEvery = 0)
          => FailedPlacements = {})
    /\ [][(pc = "step_book" /\ pc' # "stop")
          => \A key \in FailedPlacements :
                /\ key \in DOMAIN active_orders'
                /\ active_orders'[key] = active_orders[key]
                /\ \A n \in 1..Len(actions'.place_orders) :
                      Abs(actions'.place_orders[n].price - active_orders[key].price)
                         >= config.tick_size]_vars
    /\ [][(pc = "check_fills" /\ pc' # "stop")
          => \A key \in FailedPlacements :
                /\ key \in DOMAIN active_orders'
                /\ active_orders'[key] = active_orders[key]
                /\ last'.op = "on_order_filled" => last'.order_id # key]_vars

\* C36 witness: every submission of the first cycle failed, the orders
\* stayed in the engine for ten cycles, and the reconciliation of the tenth
\* cycle removed them
C36_FailedOrdersReconciled ==
    /\ cycle_count = ReconcileEvery
    /\ last.op = "reconcile"
    /\ config = ConfigPercent
    /\ mock_orders = <<>>
    /\ active_orders = EmptyMap
    /\ Len(price_history) >= 2

\* C37 (status agrees with the risk guard): the equity and the drawdown in
\* the dict get_status returns are cash + base_holdings * p and
\* (max_equity - equity) / max_equity for the price p of the most recent
\* step_book call, the values the risk check of that tick used.
C37_StatusAgreesWithGuard ==
    (last.op = "get_status" /\ price_history # <<>>)
        => LET p == price_history[Len(price_history)]
               equity == cash + base_holdings * p
           IN  /\ last.status.equity = equity
               /\ last.status.drawdown = Frac(max_equity - equity, max_equity)

\* C38 (partial fills): on_order_filled for an active order with a fill
\* quantity below the order's quantity removes the order from active_orders
\* and books the fill quantity, not the order's, into base_holdings and the
\* position; a later report of a fill for the rest of that order finds no
\* order and changes nothing.
C38_PartialFill ==
    /\ [][(/\ last'.op = "on_order_filled"
           /\ calls' = calls + 1
           /\ last'.known
           /\ active_orders[last'.order_id].side = BUY
           /\ last'.fill_quantity < active_orders[last'.order_id].quantity)
          => LET order == active_orders[last'.order_id]
             IN  /\ last'.order_id \notin DOMAIN active_orders'
                 /\ base_holdings' = base_holdings + last'.fill_quantity
                 /\ cash' = cash - last'.fill_price * last'.fill_quantity
                 /\ order.level_key \in DOMAIN positions'
                 /\ positions'[order.level_key].quantity = last'.fill_quantity]_vars
    /\ [][(/\ last'.op = "on_order_filled"
           /\ calls' = calls + 1
           /\ \E t \in RemainderFills :
                 /\ t.order_id = last'.order_id
                 /\ t.price = last'.fill_price
                 /\ t.quantity = last'.fill_quantity)
          => /\ ~last'.known
             /\ UNCHANGED <<cash, base_holdings, positions, active_orders,
                            realized_pnl, total_pnl>>]_vars

\* C38 witness: the rest of a partially filled order was reported, and the
\* position of its level holds the quantity of the partial fill
C38_RemainderReported ==
    /\ last.op = "on_order_filled"
    /\ ~last.known
    /\ ~exact_fills
    /\ last.fill_quantity = config.qty_step
    /\ \E t \in trades :
          /\ t.order_id = last.order_id
          /\ last.fill_price = t.price + config.tick_size
          /\ \E k \in DOMAIN positions : positions[k].quantity = t.quantity

\* C39 (mock gateway book): on MockMexcAPIClient every place_order returns an
\* id no earlier order has and adds the order to the open orders of its
\* symbol only; cancel_order of a known id does not raise and takes the id
\* out of the open orders of every symbol, leaving the others; cancel_order
\* of an unknown id raises and leaves the book as it was; open_orders(symbol)
\* returns the orders of the symbol that are open, without writing the book.
C39_MockGatewayBook ==
    /\ [][last'.op = "place_order"
          => /\ last'.order_id \notin MockKnownIds
             /\ \A s \in Symbols :
                   OpenOrders(s)' =
                       IF s = last'.symbol
                       THEN OpenOrders(s) \cup {last'.order_id}
                       ELSE OpenOrders(s)]_vars
    /\ [][(last'.op = "cancel_order" /\ last'.order_id \in MockKnownIds)
          => /\ ~last'.raised
             /\ \A s \in Symbols \cup {AnySymbol} :
                   OpenOrders(s)' = OpenOrders(s) \ {last'.order_id}]_vars
    /\ [][(last'.op = "cancel_order" /\ last'.order_id \notin MockKnownIds)
          => /\ last'.raised
             /\ mock_orders' = mock_orders]_vars
    /\ [][last'.op = "open_orders"
          => /\ mock_orders' = mock_orders
             /\ last'.exchange_ids \subseteq MockKnownIds
             /\ \A k \in DOMAIN mock_orders :
                   ExchangeId(k) \in last'.exchange_ids
                       <=> /\ last'.symbol \in {AnySymbol, mock_orders[k].symbol}
                           /\ mock_orders[k].status # "CANCELED"]_vars

\* C39 witness: open_orders of a symbol returned an order while the book
\* also holds a canceled order of that symbol and an order of another symbol
C39_BookRead ==
    /\ last.op = "open_orders"
    /\ last.symbol \in Symbols
    /\ last.exchange_ids # {}
    /\ \E j, k \in DOMAIN mock_orders :
          /\ mock_orders[j].symbol = last.symbol
          /\ mock_orders[j].status = "CANCELED"
          /\ mock_orders[k].symbol # last.symbol

====
